---- MODULE Spec2Model ----
(***************************************************************************)
(* Model of functions/streaming/main.py: the Cloud Function `streaming`    *)
(* that loads a semicolon-delimited telemetry file from Cloud Storage into *)
(* BigQuery, records the outcome in Firestore and publishes to Pub/Sub.    *)
(*                                                                         *)
(* Text is modelled as a sequence of atoms (short strings): the delimiter  *)
(* ";", the line end "\n", and the pieces of a field.  A field is a        *)
(* sequence of atoms, a row a sequence of fields.  Every call on an        *)
(* external client (Firestore, Storage, BigQuery, Pub/Sub) is one atomic   *)
(* step that either completes or raises.                                   *)
(***************************************************************************)
EXTENDS Integers, Sequences, FiniteSets, TLC

(* ------------------------------ bounds -------------------------------- *)
\* Number of worker slots that can run streaming() at the same time.
MaxProcs == 2
\* Total number of invocations of streaming() in one behaviour.
MaxInvocations == 3
\* Largest value the UTC clock read by _now() reaches.
MaxClock == 1
\* Number of calls on external services that fail for a transient reason (a
\* transport or service fault) in one behaviour.
MaxFaults == 1

Procs == 1..MaxProcs
Names == {"tractor_42.csv", "other.csv"}
\* The name whose object is the same well-formed file in every run.
OtherName == "other.csv"

(* --------------------------- text helpers ----------------------------- *)
SEP == ";"
NL == "\n"
\* A byte sequence that is not valid UTF-8.
BADBYTE == "\\xff"

RECURSIVE SplitOn(_, _)
\* str.split-like: the segments of text between occurrences of the atom d.
SplitOn(text, d) ==
    IF \A i \in 1..Len(text) : text[i] # d
    THEN <<text>>
    ELSE LET k == CHOOSE i \in 1..Len(text) :
                     /\ text[i] = d
                     /\ \A j \in 1..(i - 1) : text[j] # d
         IN  <<SubSeq(text, 1, k - 1)>> \o SplitOn(SubSeq(text, k + 1, Len(text)), d)

\* The lines csv.reader sees: the text cut at line ends; a line end at the very
\* end of the text (or an empty text) opens no further line.
Lines(text) ==
    LET segs == SplitOn(text, NL)
    IN  IF segs[Len(segs)] = <<>> THEN SubSeq(segs, 1, Len(segs) - 1) ELSE segs

\* csv.reader(StringIO(fileContents), delimiter=';'): one list of fields per
\* line; a blank line yields the empty list.
CsvReader(text) ==
    LET ls == Lines(text)
    IN  [i \in 1..Len(ls) |-> IF ls[i] = <<>> THEN <<>> ELSE SplitOn(ls[i], SEP)]

\* bytes.decode('utf-8'): fails on a byte sequence that is not UTF-8.
CanDecode(bytes) == \A i \in 1..Len(bytes) : bytes[i] # BADBYTE

(* ------------------- datetime.strptime / str(datetime) ---------------- *)
MonthNames == <<"Jan", "Feb", "Mar", "Apr", "May", "Jun",
                "Jul", "Aug", "Sep", "Oct", "Nov", "Dec">>
OneDigit == <<"0", "1", "2", "3", "4", "5", "6", "7", "8", "9">>
TwoDigit == <<"00", "01", "02", "03", "04", "05", "06", "07", "08", "09",
              "10", "11", "12", "13", "14", "15", "16", "17", "18", "19",
              "20", "21", "22", "23", "24", "25", "26", "27", "28", "29",
              "30", "31", "32", "33", "34", "35", "36", "37", "38", "39",
              "40", "41", "42", "43", "44", "45", "46", "47", "48", "49",
              "50", "51", "52", "53", "54", "55", "56", "57", "58", "59">>
\* The four-digit years the model's alphabet holds.
Years == <<"2016", "2017", "2018", "2019", "2020">>
\* The year the i-th entry of Years denotes.
YearAt(i) == 2015 + i

\* Index of atom a in table t, 0 when absent.
IndexOf(t, a) ==
    IF \E i \in 1..Len(t) : t[i] = a THEN CHOOSE i \in 1..Len(t) : t[i] = a ELSE 0

\* The number a one- or two-digit atom denotes, -1 when it is no such atom.
NumVal(a) ==
    IF IndexOf(TwoDigit, a) > 0 THEN IndexOf(TwoDigit, a) - 1
    ELSE IF IndexOf(OneDigit, a) > 0 THEN IndexOf(OneDigit, a) - 1
    ELSE -1

IsLeap(y) == (y % 4 = 0 /\ y % 100 # 0) \/ y % 400 = 0

DaysIn(m, y) ==
    IF m = 2 THEN (IF IsLeap(y) THEN 29 ELSE 28)
    ELSE IF m \in {4, 6, 9, 11} THEN 30 ELSE 31

\* datetime.strptime(dateTime, '%b %d, %Y %I:%M:%S %p'): the parsed fields, or
\* ok = FALSE where strptime raises ValueError.
Strptime(s) ==
    LET bad == [ok |-> FALSE, year |-> 0, month |-> 0, day |-> 0,
                hour |-> 0, minute |-> 0, second |-> 0]
    IN  IF Len(s) # 14 THEN bad
        ELSE IF ~ ( /\ s[2] = " " /\ s[4] = "," /\ s[5] = " " /\ s[7] = " "
                    /\ s[9] = ":" /\ s[11] = ":" /\ s[13] = " " ) THEN bad
        ELSE LET mo == IndexOf(MonthNames, s[1])
                 d  == NumVal(s[3])
                 yi == IndexOf(Years, s[6])
                 y  == YearAt(yi)
                 h  == NumVal(s[8])
                 mi == NumVal(s[10])
                 se == NumVal(s[12])
                 pm == s[14] \in {"PM", "pm"}
             IN  IF /\ mo > 0
                    /\ yi > 0
                    /\ d >= 1 /\ d <= DaysIn(mo, y)
                    /\ h >= 1 /\ h <= 12
                    /\ mi >= 0 /\ se >= 0
                    /\ s[14] \in {"AM", "PM", "am", "pm"}
                 THEN [ok |-> TRUE, year |-> y, month |-> mo, day |-> d,
                       hour |-> (h % 12) + (IF pm THEN 12 ELSE 0),
                       minute |-> mi, second |-> se]
                 ELSE bad

\* str(datetime): 'YYYY-MM-DD HH:MM:SS'.
DatetimeStr(dt) ==
    << Years[CHOOSE i \in DOMAIN Years : YearAt(i) = dt.year], "-", TwoDigit[dt.month + 1], "-",
       TwoDigit[dt.day + 1], " ", TwoDigit[dt.hour + 1], ":",
       TwoDigit[dt.minute + 1], ":", TwoDigit[dt.second + 1] >>

(* --------------------------- row transform ---------------------------- *)
\* Number of names the for statement unpacks each csv row into.
NumFields == 19

\* Variant of the tuple with the coordinates in source order.
TransformRowLonFirst(r) ==
    << DatetimeStr(Strptime(r[1])), r[2], r[3] \o <<", ">> \o r[4] >>
      \o SubSeq(r, 5, NumFields)

\* The tuple built for one data row: the datetime rendered by str(), the
\* serial, 'gpsLat, gpsLon', then the remaining fields as read.
TransformRow(r) ==
    << DatetimeStr(Strptime(r[1])), r[2], r[4] \o <<", ">> \o r[3] >>
      \o SubSeq(r, 5, NumFields)

RECURSIVE ParseFromHeaderFirst(_, _, _, _)
\* Variant of the loop that skips the first row before unpacking it.
ParseFromHeaderFirst(rows, i, first, acc) ==
    IF i > Len(rows) THEN [ok |-> TRUE, exc |-> "", rows |-> acc]
    ELSE IF first THEN ParseFromHeaderFirst(rows, i + 1, FALSE, acc)
    ELSE IF Len(rows[i]) # NumFields
         THEN [ok |-> FALSE, exc |-> "ValueError: unpack", rows |-> acc]
    ELSE IF ~ Strptime(rows[i][1]).ok
         THEN [ok |-> FALSE, exc |-> "ValueError: time data", rows |-> acc]
    ELSE ParseFromHeaderFirst(rows, i + 1, FALSE, Append(acc, TransformRow(rows[i])))

RECURSIVE ParseFromSkipping(_, _, _, _)
\* Variant of the loop that drops a malformed data row and goes on.
ParseFromSkipping(rows, i, first, acc) ==
    IF i > Len(rows) THEN [ok |-> TRUE, exc |-> "", rows |-> acc]
    ELSE IF first THEN ParseFromSkipping(rows, i + 1, FALSE, acc)
    ELSE IF Len(rows[i]) # NumFields \/ ~ Strptime(rows[i][1]).ok
         THEN ParseFromSkipping(rows, i + 1, FALSE, acc)
    ELSE ParseFromSkipping(rows, i + 1, FALSE, Append(acc, TransformRow(rows[i])))

RECURSIVE ParseFrom(_, _, _, _)
\* The for loop over csvData from row i on: each row is unpacked into the 19
\* names first (ValueError when its length differs), the first row is then
\* skipped, any other row has its datetime parsed and its tuple appended.
ParseFrom(rows, i, first, acc) ==
    IF i > Len(rows) THEN [ok |-> TRUE, exc |-> "", rows |-> acc]
    ELSE IF Len(rows[i]) # NumFields
         THEN [ok |-> FALSE, exc |-> "ValueError: unpack", rows |-> acc]
    ELSE IF first THEN ParseFrom(rows, i + 1, FALSE, acc)
    ELSE IF ~ Strptime(rows[i][1]).ok
         THEN [ok |-> FALSE, exc |-> "ValueError: time data", rows |-> acc]
    ELSE ParseFrom(rows, i + 1, FALSE, Append(acc, TransformRow(rows[i])))

\* parsedRows of a decoded file text.
ParseRows(text) == ParseFrom(CsvReader(text), 1, TRUE, <<>>)

(* ------------------------- objects in the bucket ---------------------- *)
RECURSIVE Join(_, _)
\* The items of a sequence of texts written one after another with the atom d
\* between them.
Join(items, d) ==
    IF Len(items) = 0 THEN <<>>
    ELSE IF Len(items) = 1 THEN items[1]
    ELSE items[1] \o <<d>> \o Join(Tail(items), d)

\* A csv line of the given fields, with its line end.
Line(fields) == Join(fields, SEP) \o <<NL>>

\* The 15 pass-through fields workingHs .. creeperStatus of sample row k.
RestFields(k) == [i \in 1..15 |-> <<"v", OneDigit[k + 1], TwoDigit[i + 5]>>]

HeaderRow == [i \in 1..NumFields |-> <<"col", TwoDigit[i + 1]>>]
DateA == <<"Jan", " ", "5", ",", " ", "2018", " ", "3", ":", "04", ":", "05", " ", "PM">>
DateB == <<"Dec", " ", "31", ",", " ", "2019", " ", "12", ":", "00", ":", "59", " ", "AM">>
\* A datetime already in ISO form, which the format string does not match.
DateIso == <<"2018", "-", "01", "-", "05", " ", "15", ":", "04", ":", "05">>
RowA == <<DateA, <<"SN", "1">>, <<"9.2">>, <<"45.1">>>> \o RestFields(1)
RowB == <<DateB, <<"SN", "2">>, <<"-0.5">>, <<"51.4">>>> \o RestFields(2)
RowBadDate == <<DateIso, <<"SN", "3">>, <<"9.3">>, <<"45.2">>>> \o RestFields(3)
\* A row that lost its last field.
RowShort == SubSeq(RowA, 1, NumFields - 1)

Present(bytes) == [exists |-> TRUE, bytes |-> bytes]
BlobValid == Present(Line(HeaderRow) \o Line(RowA) \o Line(RowB))
BlobBadDateLast == Present(Line(HeaderRow) \o Line(RowA) \o Line(RowBadDate))
BlobShortFirst == Present(Line(HeaderRow) \o Line(RowShort) \o Line(RowB))
BlobHeaderOnly == Present(Line(HeaderRow))
BlobEmpty == Present(<<>>)
BlobBadHeader == Present(Line(SubSeq(HeaderRow, 1, 3)) \o Line(RowA))
BlobNotUtf8 == Present(<<BADBYTE>> \o Line(HeaderRow))
BlobAbsent == [exists |-> FALSE, bytes |-> <<>>]

\* The objects a bucket may hold under a name when the trigger fires, by a
\* short key (the state keeps the key, Blob gives the object).
BlobKeys == {"valid", "bad date last", "short first", "header only", "empty",
             "bad header", "not utf8", "absent"}

Blob(k) ==
    CASE k = "valid" -> BlobValid
      [] k = "bad date last" -> BlobBadDateLast
      [] k = "short first" -> BlobShortFirst
      [] k = "header only" -> BlobHeaderOnly
      [] k = "empty" -> BlobEmpty
      [] k = "bad header" -> BlobBadHeader
      [] k = "not utf8" -> BlobNotUtf8
      [] OTHER -> BlobAbsent

(* ------------------------------ state --------------------------------- *)
VARIABLES
    objects,        \* Cloud Storage: object name -> key of its blob (fixed in a run)
    db,             \* Firestore collection streaming_files: name -> snapshot
    successTopic,   \* messages accepted on streaming_success_topic, in order
    errorTopic,     \* messages accepted on streaming_error_topic, in order
    bqCalls,        \* the BQ.insert_rows calls made, in order
    clock,          \* the UTC time _now() renders
    pc,             \* where each worker's invocation of streaming() stands
    ev,             \* data['name'] of each worker's invocation
    status,         \* local status of _was_already_ingested
    fileContents,   \* local fileContents of _insert_into_bigquery
    parsedRows,     \* local parsedRows of _insert_into_bigquery
    dups,           \* local dups of _handle_duplication
    doc,            \* local doc of _handle_success / _handle_error
    exc,            \* the exception being handled (traceback.format_exc())
    branch,         \* history: branch the invocation took after the lookup
    trace,          \* history: the external calls the invocation completed
    hist,           \* history: per name, the outcomes of ended invocations
    started,        \* history: number of invocations begun
    faults          \* history: number of transient faults so far

store == <<objects, db, successTopic, errorTopic, bqCalls>>
locals == <<ev, status, fileContents, parsedRows, dups, doc, exc>>
history == <<branch, trace, hist, started, faults>>
vars == <<objects, db, successTopic, errorTopic, bqCalls, clock, pc,
          ev, status, fileContents, parsedRows, dups, doc, exc,
          branch, trace, hist, started, faults>>

(* ----------------------- Firestore documents --------------------------- *)
NoFields == [f \in {} |-> TRUE]
\* Snapshot of a document that does not exist.
Missing == [exists |-> FALSE, data |-> NoFields]

\* Variant of set that merges the new fields into the existing document.
DocSetMerging(old, new) ==
    [exists |-> TRUE,
     data |-> [f \in (DOMAIN old.data) \cup (DOMAIN new) |->
                  IF f \in DOMAIN new THEN new[f] ELSE old.data[f]]]

\* Variant of set that leaves an existing document as it is.
DocSetKeepExisting(old, new) ==
    IF old.exists THEN old ELSE [exists |-> TRUE, data |-> new]

\* DocumentReference.set(doc): the document becomes exactly doc.
DocSet(old, new) == [exists |-> TRUE, data |-> new]

\* Variant of update that replaces the document by the named fields.
DocUpdateReplacing(old, new) == [exists |-> TRUE, data |-> new]

\* DocumentReference.update(fields): the named fields are written, the other
\* fields of the document stay.
DocUpdate(old, new) ==
    [exists |-> TRUE,
     data |-> [f \in (DOMAIN old.data) \cup (DOMAIN new) |->
                  IF f \in DOMAIN new THEN new[f] ELSE old.data[f]]]

\* Variant of the check that looks only at the existence of the record.
IngestedIfExists(snapshot) == snapshot.exists
\* Variant of the check that never finds the object ingested.
NeverIngested(snapshot) == FALSE

\* _was_already_ingested: status.exists and status.to_dict()['success'].
WasAlreadyIngested(snapshot) == snapshot.exists /\ snapshot.data.success

\* Variant of dups with the new timestamp put after the stored attempts.
NewDupsAppended(now, data) ==
    (IF "duplication_attempts" \in DOMAIN data
     THEN data.duplication_attempts ELSE <<>>) \o <<now>>

\* Variant of dups without the extend by the stored attempts.
NewDupsOnlyNow(now, data) == <<now>>

\* dups of _handle_duplication: [_now()] extended by the stored attempts.
NewDups(now, data) ==
    <<now>> \o (IF "duplication_attempts" \in DOMAIN data
                THEN data.duplication_attempts ELSE <<>>)

\* The fields _handle_duplication passes to update.
DupFields(d) == [duplication_attempts |-> d]

\* doc of _handle_success.
SuccessDoc(now) == [success |-> TRUE, when |-> now]

\* message of _handle_success.
SuccessMessage(id) == <<"File '", id, "' streamed into BigQuery">>

\* message of _handle_error.
ErrorMessage(id, cause) == <<"Error streaming file '", id, "'. Cause: ", cause>>

\* doc of _handle_error.
ErrorDoc(id, cause, now) ==
    [success |-> FALSE, error_message |-> ErrorMessage(id, cause), when |-> now]

\* Variant of the message published without the object name.
MessageWithoutName(data, id) == [data |-> data, file_name |-> ""]

\* A Pub/Sub message: its data and its file_name attribute.
Message(data, id) == [data |-> data, file_name |-> id]

\* A Python value handed to BQ.insert_rows as its rows argument: a str or a
\* list of tuples.
PyStr(text) == [type |-> "str", str |-> text, list |-> <<>>]
PyList(rows) == [type |-> "list", str |-> <<>>, list |-> rows]

\* The rows argument of BQ.insert_rows(table, fileContents).
InsertArg(text, rows) == PyStr(text)

\* What a finished BQ.insert_rows call amounted to.
InsertResults == {"empty", "row errors", "raised"}

\* Variant of the check of the returned errors that never raises.
ErrorsIgnored(res) == FALSE

\* if errors != []: the returned list of row errors is not empty.
ErrorsNotEmpty(res) == res = "row errors"

\* The steps a returned BQ.insert_rows call amounts to.
InsertTags(res) ==
    IF res = "row errors" THEN <<"insert", "row errors">> ELSE <<"insert">>

(* ------------------------------- Init ---------------------------------- *)
Init ==
    /\ objects \in {o \in [Names -> BlobKeys] : o[OtherName] = "valid"}
    /\ db = [n \in Names |-> Missing]
    /\ successTopic = <<>>
    /\ errorTopic = <<>>
    /\ bqCalls = <<>>
    /\ clock = 0
    /\ pc = [p \in Procs |-> "idle"]
    /\ ev = [p \in Procs |-> CHOOSE n \in Names : TRUE]
    /\ status = [p \in Procs |-> Missing]
    /\ fileContents = [p \in Procs |-> <<>>]
    /\ parsedRows = [p \in Procs |-> <<>>]
    /\ dups = [p \in Procs |-> <<>>]
    /\ doc = [p \in Procs |-> NoFields]
    /\ exc = [p \in Procs |-> ""]
    /\ branch = [p \in Procs |-> "none"]
    /\ trace = [p \in Procs |-> <<>>]
    /\ hist = [n \in Names |-> <<>>]
    /\ started = 0
    /\ faults = 0

(* ------------------------------ helpers -------------------------------- *)
Ended(p) == pc[p] \in {"idle", "done", "raised"}

\* The invocation of worker p ends with outcome o.
End(p, o) == hist' = [hist EXCEPT ![ev[p]] = Append(@, o)]

\* Worker p's invocation went through the steps named by tags.
Log(p, tags) == trace' = [trace EXCEPT ![p] = @ \o tags]

\* A call on an external service fails for a transient reason.
Fault == faults < MaxFaults /\ faults' = faults + 1
NoFault == faults' = faults

\* Variant of Raise in which the exception is handled by _handle_error, as if
\* the try statement enclosed the whole body of streaming().
RaiseInsideTry(p, cause, tags) ==
    /\ pc' = [pc EXCEPT ![p] = "handle_error"]
    /\ exc' = [exc EXCEPT ![p] = cause]
    /\ Log(p, tags \o <<"caught">>)
    /\ UNCHANGED hist

\* An exception is raised where no try statement encloses it (the lookup, the
\* duplicate branch, the except clause itself): it leaves streaming().
Raise(p, cause, tags) ==
    /\ pc' = [pc EXCEPT ![p] = "raised"]
    /\ exc' = [exc EXCEPT ![p] = cause]
    /\ Log(p, tags \o <<"raised">>)
    /\ End(p, "raised")

\* Variant of Catch whose except clause does nothing: the invocation returns.
CatchAndPass(p, cause, tags) ==
    /\ pc' = [pc EXCEPT ![p] = "done"]
    /\ exc' = [exc EXCEPT ![p] = cause]
    /\ Log(p, tags \o <<"caught">>)
    /\ End(p, "failure")

\* Variant of Catch without the try statement: the exception leaves.
CatchNothing(p, cause, tags) ==
    /\ pc' = [pc EXCEPT ![p] = "raised"]
    /\ exc' = [exc EXCEPT ![p] = cause]
    /\ Log(p, tags \o <<"raised">>)
    /\ End(p, "raised")

\* An exception is raised inside the try statement of streaming(): `except
\* Exception` catches it and _handle_error runs.
Catch(p, cause, tags) ==
    /\ pc' = [pc EXCEPT ![p] = "handle_error"]
    /\ exc' = [exc EXCEPT ![p] = cause]
    /\ Log(p, tags \o <<"caught">>)
    /\ UNCHANGED hist

(* ------------------------------ actions -------------------------------- *)
\* The trigger delivers an event for object n: streaming(data, context) begins
\* on worker p, the first free one (which worker runs it cannot be observed),
\* and builds db_ref.
Start(p, n) ==
    /\ Ended(p)
    /\ \A q \in Procs : q < p => ~ Ended(q)
    /\ started < MaxInvocations
    /\ started' = started + 1
    /\ pc' = [pc EXCEPT ![p] = "lookup"]
    /\ ev' = [ev EXCEPT ![p] = n]
    /\ status' = [status EXCEPT ![p] = Missing]
    /\ fileContents' = [fileContents EXCEPT ![p] = <<>>]
    /\ parsedRows' = [parsedRows EXCEPT ![p] = <<>>]
    /\ dups' = [dups EXCEPT ![p] = <<>>]
    /\ doc' = [doc EXCEPT ![p] = NoFields]
    /\ exc' = [exc EXCEPT ![p] = ""]
    /\ branch' = [branch EXCEPT ![p] = "none"]
    /\ trace' = [trace EXCEPT ![p] = <<>>]
    /\ UNCHANGED <<store, clock, hist, faults>>

\* if _was_already_ingested(db_ref): status = db_ref.get() and the branch.
Lookup(p) ==
    /\ pc[p] = "lookup"
    /\ \/ /\ Fault
          /\ Raise(p, "Firestore get", <<"fault">>)
          /\ UNCHANGED <<status, branch>>
       \/ /\ NoFault
          /\ db[ev[p]].exists /\ "success" \notin DOMAIN db[ev[p]].data
          /\ status' = [status EXCEPT ![p] = db[ev[p]]]
          /\ Raise(p, "KeyError", <<"get">>)
          /\ UNCHANGED <<branch>>
       \/ /\ NoFault
          /\ db[ev[p]].exists => "success" \in DOMAIN db[ev[p]].data
          /\ status' = [status EXCEPT ![p] = db[ev[p]]]
          /\ Log(p, <<"get">>)
          /\ IF WasAlreadyIngested(db[ev[p]])
             THEN /\ pc' = [pc EXCEPT ![p] = "dup_get"]
                  /\ branch' = [branch EXCEPT ![p] = "duplicate"]
             ELSE /\ pc' = [pc EXCEPT ![p] = "fetch"]
                  /\ branch' = [branch EXCEPT ![p] = "process"]
          /\ UNCHANGED <<exc, hist>>
    /\ UNCHANGED <<store, clock, ev, fileContents, parsedRows, dups, doc, started>>

\* _handle_duplication up to the update: dups = [_now()], the second
\* db_ref.get(), and the extend by the stored attempts.
DupGet(p) ==
    /\ pc[p] = "dup_get"
    /\ \/ /\ Fault
          /\ Raise(p, "Firestore get", <<"fault">>)
          /\ UNCHANGED <<dups>>
       \/ /\ NoFault
          /\ ~ db[ev[p]].exists
          /\ Raise(p, "TypeError", <<"get">>)
          /\ UNCHANGED <<dups>>
       \/ /\ NoFault
          /\ db[ev[p]].exists
          /\ dups' = [dups EXCEPT ![p] = NewDups(clock, db[ev[p]].data)]
          /\ Log(p, <<"get">>)
          /\ pc' = [pc EXCEPT ![p] = "dup_update"]
          /\ UNCHANGED <<exc, hist>>
    /\ UNCHANGED <<store, clock, ev, status, fileContents, parsedRows, doc,
                   branch, started>>

\* db_ref.update({'duplication_attempts': dups}) and the warning.
DupUpdate(p) ==
    /\ pc[p] = "dup_update"
    /\ \/ /\ Fault
          /\ Raise(p, "Firestore update", <<"fault">>)
          /\ UNCHANGED <<db>>
       \/ /\ NoFault
          /\ ~ db[ev[p]].exists
          /\ Raise(p, "NotFound", <<>>)
          /\ UNCHANGED <<db>>
       \/ /\ NoFault
          /\ db[ev[p]].exists
          /\ db' = [db EXCEPT ![ev[p]] = DocUpdate(@, DupFields(dups[p]))]
          /\ Log(p, <<"update">>)
          /\ pc' = [pc EXCEPT ![p] = "done"]
          /\ End(p, "duplicate")
          /\ UNCHANGED <<exc>>
    /\ UNCHANGED <<objects, successTopic, errorTopic, bqCalls, clock, ev, status,
                   fileContents, parsedRows, dups, doc, branch, started>>

\* _insert_into_bigquery up to the insert: the download of the blob, the
\* decode, and the loop that parses and transforms the rows (its locals are
\* kept only when the function goes on to the insert).
Fetch(p) ==
    /\ pc[p] = "fetch"
    /\ LET blob == Blob(objects[ev[p]])
           parsed == ParseRows(blob.bytes)
       IN  \/ /\ Fault
              /\ Catch(p, "Storage fault", <<"fault">>)
              /\ UNCHANGED <<fileContents, parsedRows>>
           \/ /\ NoFault
              /\ ~ blob.exists
              /\ Catch(p, "NotFound", <<>>)
              /\ UNCHANGED <<fileContents, parsedRows>>
           \/ /\ NoFault
              /\ blob.exists
              /\ IF ~ CanDecode(blob.bytes)
                 THEN /\ Catch(p, "UnicodeDecodeError", <<"fetch">>)
                      /\ UNCHANGED <<fileContents, parsedRows>>
                 ELSE IF parsed.ok
                      THEN /\ fileContents' = [fileContents EXCEPT ![p] = blob.bytes]
                           /\ parsedRows' = [parsedRows EXCEPT ![p] = parsed.rows]
                           /\ Log(p, <<"fetch">>)
                           /\ pc' = [pc EXCEPT ![p] = "insert"]
                           /\ UNCHANGED <<exc, hist>>
                      ELSE /\ Catch(p, parsed.exc, <<"fetch">>)
                           /\ UNCHANGED <<fileContents, parsedRows>>
    /\ UNCHANGED <<store, clock, ev, status, dups, doc, branch, started>>

\* BQ.get_table, BQ.insert_rows and the check of the returned errors; the
\* locals of _insert_into_bigquery end with it.  The answer of the warehouse
\* is not decided by this program: the call returns no errors, returns row
\* errors, or raises.
Insert(p) ==
    /\ pc[p] = "insert"
    /\ fileContents' = [fileContents EXCEPT ![p] = <<>>]
    /\ parsedRows' = [parsedRows EXCEPT ![p] = <<>>]
    /\ \/ /\ Fault
          /\ Catch(p, "BigQuery get_table", <<"fault">>)
          /\ UNCHANGED <<bqCalls>>
       \/ \E res \in InsertResults :
             /\ bqCalls' = Append(bqCalls,
                                  [file_name |-> ev[p],
                                   rows |-> InsertArg(fileContents[p], parsedRows[p]),
                                   result |-> res])
             /\ IF res = "raised"
                THEN /\ Fault
                     /\ Catch(p, "BigQuery insert_rows", <<"insert", "fault">>)
                ELSE /\ NoFault
                     /\ IF ErrorsNotEmpty(res)
                        THEN Catch(p, "BigQueryError", InsertTags(res))
                        ELSE /\ Log(p, InsertTags(res))
                             /\ pc' = [pc EXCEPT ![p] = "success_set"]
                             /\ UNCHANGED <<exc, hist>>
    /\ UNCHANGED <<objects, db, successTopic, errorTopic, clock, ev, status,
                   dups, doc, branch, started>>

\* Variant of _handle_success that goes on to the publish without the set.
SuccessSetOmitted(p) ==
    /\ pc[p] = "success_set"
    /\ doc' = [doc EXCEPT ![p] = SuccessDoc(clock)]
    /\ NoFault
    /\ pc' = [pc EXCEPT ![p] = "success_publish"]
    /\ UNCHANGED <<store, clock, ev, status, fileContents, parsedRows, dups,
                   exc, branch, trace, hist, started>>

\* _handle_success: message, doc and db_ref.set(doc).
SuccessSet(p) ==
    /\ pc[p] = "success_set"
    /\ doc' = [doc EXCEPT ![p] = SuccessDoc(clock)]
    /\ \/ /\ Fault
          /\ Catch(p, "Firestore set", <<"fault">>)
          /\ UNCHANGED <<db>>
       \/ /\ NoFault
          /\ db' = [db EXCEPT ![ev[p]] = DocSet(@, SuccessDoc(clock))]
          /\ Log(p, <<"set_success">>)
          /\ pc' = [pc EXCEPT ![p] = "success_publish"]
          /\ UNCHANGED <<exc, hist>>
    /\ UNCHANGED <<objects, successTopic, errorTopic, bqCalls, clock, ev, status,
                   fileContents, parsedRows, dups, branch, started>>

\* _handle_success: PS.publish(SUCCESS_TOPIC, ...) and the info log.
SuccessPublish(p) ==
    /\ pc[p] = "success_publish"
    /\ \/ /\ Fault
          /\ Catch(p, "Pub/Sub publish", <<"fault">>)
          /\ UNCHANGED <<successTopic>>
       \/ /\ NoFault
          /\ successTopic' = Append(successTopic,
                                    Message(SuccessMessage(ev[p]), ev[p]))
          /\ Log(p, <<"publish_success">>)
          /\ pc' = [pc EXCEPT ![p] = "done"]
          /\ End(p, "success")
          /\ UNCHANGED <<exc>>
    /\ UNCHANGED <<objects, db, errorTopic, bqCalls, clock, ev, status,
                   fileContents, parsedRows, dups, doc, branch, started>>

\* _handle_error: message, doc and db_ref.set(doc).
ErrorSet(p) ==
    /\ pc[p] = "handle_error"
    /\ doc' = [doc EXCEPT ![p] = ErrorDoc(ev[p], exc[p], clock)]
    /\ \/ /\ Fault
          /\ Raise(p, "Firestore set", <<"fault">>)
          /\ UNCHANGED <<db>>
       \/ /\ NoFault
          /\ db' = [db EXCEPT ![ev[p]] = DocSet(@, ErrorDoc(ev[p], exc[p], clock))]
          /\ Log(p, <<"set_failure">>)
          /\ pc' = [pc EXCEPT ![p] = "error_publish"]
          /\ UNCHANGED <<exc, hist>>
    /\ UNCHANGED <<objects, successTopic, errorTopic, bqCalls, clock, ev, status,
                   fileContents, parsedRows, dups, branch, started>>

\* _handle_error: PS.publish(ERROR_TOPIC, ...) and the error log.
ErrorPublish(p) ==
    /\ pc[p] = "error_publish"
    /\ \/ /\ Fault
          /\ Raise(p, "Pub/Sub publish", <<"fault">>)
          /\ UNCHANGED <<errorTopic>>
       \/ /\ NoFault
          /\ errorTopic' = Append(errorTopic,
                                  Message(doc[p].error_message, ev[p]))
          /\ Log(p, <<"publish_error">>)
          /\ pc' = [pc EXCEPT ![p] = "done"]
          /\ End(p, "failure")
          /\ UNCHANGED <<exc>>
    /\ UNCHANGED <<objects, db, successTopic, bqCalls, clock, ev, status,
                   fileContents, parsedRows, dups, doc, branch, started>>

\* A second of UTC time passes.
Tick ==
    /\ clock < MaxClock
    /\ clock' = clock + 1
    /\ UNCHANGED <<store, pc, locals, history>>

Step(p) ==
    \/ Lookup(p)
    \/ DupGet(p)
    \/ DupUpdate(p)
    \/ Fetch(p)
    \/ Insert(p)
    \/ SuccessSet(p)
    \/ SuccessPublish(p)
    \/ ErrorSet(p)
    \/ ErrorPublish(p)

\* Invocations may overlap: the trigger starts one on any free worker.
Next ==
    \/ \E p \in Procs, n \in Names : Start(p, n)
    \/ \E p \in Procs : Step(p)
    \/ Tick

Spec == Init /\ [][Next]_vars

\* One invocation at a time: the trigger starts the next when none is running.
SeqStart(p, n) == (\A q \in Procs : Ended(q)) /\ Start(p, n)

SeqNext ==
    \/ \E p \in Procs, n \in Names : SeqStart(p, n)
    \/ \E p \in Procs : Step(p)
    \/ Tick

SeqSpec == Init /\ [][SeqNext]_vars

(* ====================== properties of the program ====================== *)
\* How many times the step named tag occurs in worker p's invocation.
Count(p, tag) == Cardinality({i \in DOMAIN trace[p] : trace[p][i] = tag})
Has(p, tag) == \E i \in DOMAIN trace[p] : trace[p][i] = tag

\* The status record of name n says success.
RecordedSuccess(n) == db[n].exists /\ db[n].data.success = TRUE
\* The status record worker p's lookup read says success.
ReadSuccess(p) == status[p].exists /\ status[p].data.success = TRUE
\* The lookup of worker p's invocation returned.
LookedUp(p) == branch[p] # "none"

AttemptsOf(snapshot) ==
    IF snapshot.exists /\ "duplication_attempts" \in DOMAIN snapshot.data
    THEN snapshot.data.duplication_attempts ELSE <<>>

\* The rows of the blob with key k, as text rows, and its data rows (all but
\* the first).
FileRows(k) == CsvReader(Blob(k).bytes)
DataRows(k) == IF FileRows(k) = <<>> THEN <<>> ELSE Tail(FileRows(k))
Readable(k) == Blob(k).exists /\ CanDecode(Blob(k).bytes)
WellFormed(r) == Len(r) = 19 /\ Strptime(r[1]).ok
\* The blobs whose data rows all have 19 fields and a parseable datetime.
KeysAllDataRowsValid ==
    {k \in BlobKeys : Readable(k) /\ \A i \in DOMAIN DataRows(k) : WellFormed(DataRows(k)[i])}
\* The blobs with a data row that has not.
KeysSomeDataRowMalformed ==
    {k \in BlobKeys : Readable(k) /\ \E i \in DOMAIN DataRows(k) : ~ WellFormed(DataRows(k)[i])}
\* The blobs whose first row, if any, has 19 fields.
KeysHeaderHas19 ==
    {k \in BlobKeys : FileRows(k) # <<>> => Len(FileRows(k)[1]) = 19}

AllDataRowsValid(n) == objects[n] \in KeysAllDataRowsValid
SomeDataRowMalformed(n) == objects[n] \in KeysSomeDataRowMalformed
HeaderHas19(n) == objects[n] \in KeysHeaderHas19

\* The messages on a topic that carry name n.
MessagesFor(topic, n) == Cardinality({i \in DOMAIN topic : topic[i].file_name = n})

C2_DuplicateTrigger ==
    \A p \in Procs :
        (pc[p] # "idle" /\ ReadSuccess(p))
            => /\ branch[p] = "duplicate"
               /\ ~ Has(p, "fetch") /\ ~ Has(p, "insert")
               /\ ~ Has(p, "publish_success") /\ ~ Has(p, "publish_error")
               /\ pc[p] = "done" =>
                     Len(AttemptsOf(db[ev[p]])) = Len(AttemptsOf(status[p])) + 1

C2_Witness ==
    \E p \in Procs :
        /\ pc[p] = "done" /\ ReadSuccess(p)
        /\ Len(AttemptsOf(status[p])) = 1
        /\ Len(AttemptsOf(db[ev[p]])) = 2
        /\ bqCalls # <<>>

(* C3: every bulk insert is called with the transformed row batch: one        *)
(* transformed row per data row of the file, in file order, and with nothing  *)
(* else.                                                                      *)
ExpectedBatch(k) == [i \in DOMAIN DataRows(k) |-> TransformRow(DataRows(k)[i])]

C3_InsertGetsTransformedRows ==
    \A i \in DOMAIN bqCalls :
        bqCalls[i].rows = PyList(ExpectedBatch(objects[bqCalls[i].file_name]))

(* C4: once the status record of a name says success, no later step leaves   *)
(* it saying failure or absent (so every later invocation for the name takes  *)
(* the duplicate branch).                                                     *)
C4_SuccessIsPermanent ==
    [][\A n \in Names : RecordedSuccess(n) => RecordedSuccess(n)']_vars

(* C5: when some data row of the file has a field count other than 19 or an   *)
(* unparseable datetime, the invocation never calls the bulk insert, whichever *)
(* row it is, and it returns with the status record saying failure and with   *)
(* one error message and no success message.                                  *)
C5_MalformedRowFails ==
    \A p \in Procs :
        (branch[p] = "process" /\ SomeDataRowMalformed(ev[p]))
            => /\ ~ Has(p, "insert")
               /\ \A i \in DOMAIN bqCalls : bqCalls[i].file_name # ev[p]
               /\ pc[p] = "done" =>
                     /\ db[ev[p]].exists /\ db[ev[p]].data.success = FALSE
                     /\ Count(p, "publish_error") = 1
                     /\ Count(p, "publish_success") = 0
                     /\ MessagesFor(successTopic, ev[p]) = 0

C5_Witness ==
    \E p \in Procs :
        /\ pc[p] = "done" /\ objects[ev[p]] = "bad date last"
        /\ exc[p] = "ValueError: time data"
        /\ Has(p, "publish_error")
        /\ db[ev[p]].exists /\ db[ev[p]].data.success = FALSE

\* The steps of worker p's invocation after the exception was caught.
AfterCaught(p) ==
    LET k == CHOOSE i \in DOMAIN trace[p] : trace[p][i] = "caught"
    IN  SubSeq(trace[p], k + 1, Len(trace[p]))

(* C6 (as stated): once the lookup has returned 'not ingested', no exception  *)
(* leaves streaming().                                                        *)
C6_NoExceptionLeaves ==
    \A p \in Procs : branch[p] = "process" => pc[p] # "raised"

(* C6 (amended): every fault raised in the processing branch (fetch, decode,  *)
(* parse, insert, success write, success publish) is caught in streaming()    *)
(* and handled by _handle_error; the invocation then returns normally after   *)
(* writing a failure record and publishing on the error topic, unless the     *)
(* failure record write or the error publish itself raises: that exception,   *)
(* and no other, leaves streaming() in the processing branch.                 *)
C6_CaughtUnlessHandlerFails ==
    \A p \in Procs :
        branch[p] = "process" =>
            /\ \A i \in DOMAIN trace[p] :
                   ( /\ trace[p][i] \in {"fault", "row errors"}
                     /\ \A j \in 1..(i - 1) : trace[p][j] # "caught" )
                       => i < Len(trace[p]) /\ trace[p][i + 1] = "caught"
            /\ exc[p] # "" => Count(p, "caught") = 1
            /\ (pc[p] = "done" /\ Has(p, "caught")) =>
                   /\ AfterCaught(p) = <<"set_failure", "publish_error">>
                   /\ db[ev[p]].exists /\ db[ev[p]].data.success = FALSE
            /\ pc[p] = "raised" =>
                   /\ Has(p, "caught")
                   /\ AfterCaught(p) \in {<<"fault", "raised">>,
                                          <<"set_failure", "fault", "raised">>}

C6_Witness ==
    \E p \in Procs :
        /\ pc[p] = "done" /\ branch[p] = "process"
        /\ exc[p] = "Pub/Sub publish"
        /\ Has(p, "set_success") /\ Has(p, "caught")
        /\ AfterCaught(p) = <<"set_failure", "publish_error">>

(* C7: an invocation that took the processing branch and returned has         *)
(* published exactly one message in total, on the success topic or on the     *)
(* error topic, and that message carries the object name as file_name.        *)
C7_ExactlyOneNotification ==
    \A p \in Procs :
        (pc[p] = "done" /\ branch[p] = "process") =>
            /\ Count(p, "publish_success") + Count(p, "publish_error") = 1
            /\ Has(p, "publish_success") =>
                   /\ successTopic # <<>>
                   /\ successTopic[Len(successTopic)].file_name = ev[p]
            /\ Has(p, "publish_error") =>
                   /\ errorTopic # <<>>
                   /\ errorTopic[Len(errorTopic)].file_name = ev[p]
            /\ Len(successTopic) + Len(errorTopic)
                   = Cardinality({i \in DOMAIN hist[ev[p]] :
                                     hist[ev[p]][i] \in {"success", "failure"}})
                     + Cardinality({i \in DOMAIN hist[CHOOSE n \in Names : n # ev[p]] :
                                     hist[CHOOSE n \in Names : n # ev[p]][i]
                                         \in {"success", "failure"}})

C7_Witness ==
    \E p \in Procs :
        /\ pc[p] = "done" /\ branch[p] = "process"
        /\ Has(p, "set_success") /\ Has(p, "publish_error")
        /\ ~ Has(p, "publish_success")

(* C8: after two consecutive failing invocations for a name that never        *)
(* succeeded, the status record holds exactly success = false and the second  *)
(* invocation's error_message and when, and exactly two messages for the name *)
(* are on the error topic.                                                    *)
C8_FailureRecordReplaced ==
    \A p \in Procs :
        (pc[p] = "done" /\ hist[ev[p]] = <<"failure", "failure">>) =>
            /\ db[ev[p]].exists
            /\ DOMAIN db[ev[p]].data = {"success", "error_message", "when"}
            /\ db[ev[p]].data.success = FALSE
            /\ db[ev[p]].data.error_message
                   = <<"Error streaming file '", ev[p], "'. Cause: ", exc[p]>>
            /\ db[ev[p]].data.when = doc[p].when
            /\ MessagesFor(errorTopic, ev[p]) = 2
            /\ MessagesFor(successTopic, ev[p]) = 0
            /\ errorTopic[Len(errorTopic)].data = db[ev[p]].data.error_message

C8_Witness ==
    \E p \in Procs :
        /\ pc[p] = "done" /\ hist[ev[p]] = <<"failure", "failure">>
        /\ MessagesFor(errorTopic, ev[p]) = 2
        /\ \E i, j \in DOMAIN errorTopic :
               /\ i < j
               /\ errorTopic[i].file_name = ev[p] /\ errorTopic[j].file_name = ev[p]
               /\ errorTopic[i].data # errorTopic[j].data
               /\ db[ev[p]].data.error_message = errorTopic[j].data
        /\ db[ev[p]].data.when = 1

(* C9: the duplicate check is the only guard before the insert and it is a    *)
(* read: an invocation calls the insert exactly when its own lookup read 'not *)
(* ingested'.  The witness is the state the claim says is reachable: two      *)
(* overlapping invocations for one name, both having read 'not ingested',     *)
(* both having inserted.                                                      *)
C9_InsertGuardedOnlyByOwnRead ==
    \A p \in Procs :
        Has(p, "insert") => (LookedUp(p) /\ ~ ReadSuccess(p) /\ branch[p] = "process")

C9_BothInserted ==
    \E p, q \in Procs :
        /\ p # q /\ ev[p] = ev[q]
        /\ ~ Ended(p) /\ ~ Ended(q)
        /\ branch[p] = "process" /\ branch[q] = "process"
        /\ ~ ReadSuccess(p) /\ ~ ReadSuccess(q)
        /\ Has(p, "insert") /\ Has(q, "insert")
        /\ Cardinality({i \in DOMAIN bqCalls : bqCalls[i].file_name = ev[p]}) = 2

(* C10: a fault in the initial lookup, or in the read or the update of the    *)
(* duplicate branch, leaves streaming(): the invocation ends there, having    *)
(* written no status record by set, called no insert and published nothing.   *)
C10_UncaughtOutsideTry ==
    \A p \in Procs :
        (branch[p] \in {"none", "duplicate"} /\ Has(p, "fault")) =>
            /\ pc[p] = "raised"
            /\ SubSeq(trace[p], Len(trace[p]) - 1, Len(trace[p])) = <<"fault", "raised">>
            /\ ~ Has(p, "caught")
            /\ ~ Has(p, "set_success") /\ ~ Has(p, "set_failure")
            /\ ~ Has(p, "insert")
            /\ ~ Has(p, "publish_success") /\ ~ Has(p, "publish_error")

C10_Witness ==
    \E p \in Procs :
        /\ pc[p] = "raised" /\ branch[p] = "duplicate"
        /\ exc[p] = "Firestore update"
        /\ RecordedSuccess(ev[p])

(* C11: when the bulk insert returns row errors, the invocation raises       *)
(* BigQueryError (caught in streaming()), never writes success = true, and    *)
(* when it returns the status record says failure with the BigQueryError      *)
(* message and one message is on the error topic; an invocation writes        *)
(* success = true only right after its insert returned an empty error list.   *)
C11_RowErrorsFail ==
    \A p \in Procs :
        /\ Has(p, "row errors") =>
               /\ ~ Has(p, "set_success")
               /\ Count(p, "publish_success") = 0
               /\ \E i \in DOMAIN trace[p] :
                      /\ trace[p][i] = "row errors"
                      /\ i < Len(trace[p]) /\ trace[p][i + 1] = "caught"
               /\ pc[p] \in {"handle_error", "error_publish", "done"}
                      => exc[p] = "BigQueryError"
               /\ pc[p] = "done" =>
                      /\ db[ev[p]].exists /\ db[ev[p]].data.success = FALSE
                      /\ db[ev[p]].data.error_message
                             = ErrorMessage(ev[p], "BigQueryError")
                      /\ Count(p, "publish_error") = 1
                      /\ errorTopic[Len(errorTopic)]
                             = Message(ErrorMessage(ev[p], "BigQueryError"), ev[p])
        /\ Has(p, "set_success") =>
               /\ \E i \in DOMAIN trace[p] :
                      /\ trace[p][i] = "insert"
                      /\ i < Len(trace[p]) /\ trace[p][i + 1] = "set_success"
               /\ bqCalls # <<>>
               /\ bqCalls[Len(bqCalls)].file_name = ev[p]
               /\ bqCalls[Len(bqCalls)].result = "empty"

C11_Witness ==
    \E p \in Procs :
        /\ pc[p] = "done" /\ Has(p, "row errors")
        /\ exc[p] = "BigQueryError"
        /\ objects[ev[p]] = "valid"
        /\ db[ev[p]].exists /\ db[ev[p]].data.success = FALSE
        /\ Count(p, "publish_error") = 1

\* How many of the ended invocations for name n had outcome o.
Outcomes(n, o) == Cardinality({i \in DOMAIN hist[n] : hist[n][i] = o})

IsSuffix(a, b) ==
    /\ Len(a) <= Len(b)
    /\ SubSeq(b, Len(b) - Len(a) + 1, Len(b)) = a

(* C13: under any interleaving, once the status record of a name says         *)
(* success, no step shortens duplication_attempts or drops an entry of it:    *)
(* every step leaves the earlier sequence whole inside the later one.         *)
C13_AttemptsOnlyGrow ==
    [][\A n \in Names :
          RecordedSuccess(n) => IsSuffix(AttemptsOf(db[n]), AttemptsOf(db[n])')]_vars

\* The exceptions the parsing loop raises.
ParseErrors == {"ValueError: unpack", "ValueError: time data"}
\* The fetch of worker p's invocation ended in an exception.
FetchRaised(p) ==
    \E i \in DOMAIN trace[p] :
        trace[p][i] = "fetch" /\ i < Len(trace[p]) /\ trace[p][i + 1] = "caught"
\* _handle_error of worker p's invocation is at work or has returned.
Handling(p) == pc[p] \in {"handle_error", "error_publish", "done"}

ErrorMessageIffFailure(n) ==
    db[n].exists =>
        /\ "success" \in DOMAIN db[n].data
        /\ ("error_message" \in DOMAIN db[n].data) <=> (db[n].data.success = FALSE)

\* Worker p's duplicate branch performs its update in this step.
Updates(p) == pc[p] = "dup_update" /\ pc'[p] = "done"

DateAIso == <<"2018", "-", "01", "-", "05", " ", "15", ":", "04", ":", "05">>
DateBIso == <<"2019", "-", "12", "-", "31", " ", "00", ":", "00", ":", "59">>
IsoOf(d) == IF d = DateA THEN DateAIso ELSE IF d = DateB THEN DateBIso ELSE <<>>

\* Tuple t is the transformed row of the 19-field source row r.
IsTransformOf(t, r) ==
    /\ Len(t) = 18
    /\ t[1] = IsoOf(r[1])
    /\ t[2] = r[2]
    /\ t[3] = r[4] \o <<", ">> \o r[3]
    /\ \A j \in 4..18 : t[j] = r[j + 1]

(* C16: every tuple of parsedRows built from a 19-field data row with a       *)
(* parseable datetime has exactly 18 fields: the datetime in the form         *)
(* 'YYYY-MM-DD HH:MM:SS', the serial, 'latitude, longitude' (source fields 4  *)
(* and 3), then source fields 5..19 as read and in order.                     *)
C16_TransformedRowLayout ==
    \A p \in Procs :
        pc[p] = "insert" =>
            /\ Len(parsedRows[p]) = Len(DataRows(objects[ev[p]]))
            /\ \A i \in DOMAIN parsedRows[p] :
                   /\ WellFormed(DataRows(objects[ev[p]])[i])
                   /\ IsTransformOf(parsedRows[p][i], DataRows(objects[ev[p]])[i])

C16_Witness ==
    \E p \in Procs :
        /\ pc[p] = "insert" /\ Len(parsedRows[p]) = 2
        /\ parsedRows[p][1][1] = DateAIso
        /\ parsedRows[p][1][3] = <<"45.1", ", ", "9.2">>
        /\ parsedRows[p][2][1] = DateBIso
        /\ parsedRows[p][2][18] = RowB[19]

\* Worker p's invocation performs a call on its status record in this step.
WritesRecord(p) ==
    /\ pc[p] \in {"dup_update", "success_set", "handle_error"}
    /\ pc'[p] # pc[p]

(* C17: the update of the duplicate branch changes only duplication_attempts  *)
(* of the record of the event's name: every other field of that record keeps  *)
(* the value it had, no field is removed; and no step of any invocation       *)
(* changes the status record of a name other than its event's name.           *)
C17_DuplicateBranchFrame ==
    [][ /\ \A p \in Procs :
              Updates(p) =>
                  /\ DOMAIN db'[ev[p]].data
                         = (DOMAIN db[ev[p]].data) \cup {"duplication_attempts"}
                  /\ \A f \in (DOMAIN db[ev[p]].data) \ {"duplication_attempts"} :
                         db'[ev[p]].data[f] = db[ev[p]].data[f]
                  /\ db'[ev[p]].data.duplication_attempts = dups[p]
        /\ \A n \in Names :
              db'[n] # db[n] => \E p \in Procs : ev[p] = n /\ WritesRecord(p)
      ]_vars

C17_Witness ==
    \E p \in Procs :
        /\ pc[p] = "done" /\ branch[p] = "duplicate"
        /\ DOMAIN db[ev[p]].data = {"success", "when", "duplication_attempts"}
        /\ db[ev[p]].data.success = TRUE
        /\ db[ev[p]].data.when = 0
        /\ db[ev[p]].data.duplication_attempts = <<1>>
        /\ \E n \in Names :
               /\ n # ev[p]
               /\ db[n].exists /\ DOMAIN db[n].data = {"success", "when"}

\* The bulk inserts for name n that returned an empty error list.
CleanInserts(n) ==
    Cardinality({i \in DOMAIN bqCalls :
                    bqCalls[i].file_name = n /\ bqCalls[i].result = "empty"})

(* C18: in one invocation the insert returns an empty error list before the   *)
(* record is set to success, and the set completes before the success         *)
(* publish: an invocation that has set success, or has published on the       *)
(* success topic, went through exactly lookup, fetch, insert without row      *)
(* errors, set, publish in this order; and every success message for a name   *)
(* is matched by an earlier insert for that name that returned no errors.     *)
C18_SuccessStepsOrdered ==
    /\ \A p \in Procs :
           /\ Has(p, "set_success") =>
                  SubSeq(trace[p], 1, 4) = <<"get", "fetch", "insert", "set_success">>
           /\ Has(p, "publish_success") =>
                  /\ trace[p] = <<"get", "fetch", "insert", "set_success",
                                  "publish_success">>
                  /\ pc[p] = "done"
                  /\ CleanInserts(ev[p]) >= 1
    /\ \A n \in Names :
           /\ MessagesFor(successTopic, n) = Outcomes(n, "success")
           /\ MessagesFor(successTopic, n) <= CleanInserts(n)

C18_Witness ==
    \E p \in Procs :
        /\ pc[p] = "done" /\ Has(p, "publish_success")
        /\ MessagesFor(successTopic, ev[p]) = 2
        /\ CleanInserts(ev[p]) = 2

\* The bulk inserts made for name n.
InsertsFor(n) == Cardinality({i \in DOMAIN bqCalls : bqCalls[i].file_name = n})
\* The failure record left by an invocation whose success publish raised.
PublishFailureRecord(snapshot, n) ==
    /\ snapshot.exists /\ snapshot.data.success = FALSE
    /\ "error_message" \in DOMAIN snapshot.data
    /\ snapshot.data.error_message = ErrorMessage(n, "Pub/Sub publish")

(* C19: when the success publish raises after the insert returned no errors   *)
(* and the record was set to success, the same invocation replaces the record *)
(* by a failure document with the error message and publishes on the error    *)
(* topic; the record it returns with says failure although the rows were      *)
(* inserted, and the next invocation for the name that reads this record      *)
(* takes the processing branch and, when it reaches the insert, inserts again.*)
C19_PublishFaultFlipsRecord ==
    \A p \in Procs :
        /\ (Has(p, "set_success") /\ Has(p, "caught")) =>
               /\ SubSeq(trace[p], 1, 6)
                      = <<"get", "fetch", "insert", "set_success", "fault", "caught">>
               /\ ~ Has(p, "publish_success")
               /\ CleanInserts(ev[p]) >= 1
               /\ pc[p] \in {"handle_error", "error_publish", "done"}
                      => exc[p] = "Pub/Sub publish"
               /\ pc[p] = "error_publish" => PublishFailureRecord(db[ev[p]], ev[p])
               /\ pc[p] = "done" =>
                      /\ PublishFailureRecord(db[ev[p]], ev[p])
                      /\ AfterCaught(p) = <<"set_failure", "publish_error">>
                      /\ errorTopic[Len(errorTopic)]
                             = Message(ErrorMessage(ev[p], "Pub/Sub publish"), ev[p])
        /\ (LookedUp(p) /\ PublishFailureRecord(status[p], ev[p])) =>
               /\ branch[p] = "process"
               /\ CleanInserts(ev[p]) >= 1
               /\ Has(p, "insert") => InsertsFor(ev[p]) >= 2

C19_Witness ==
    \E p \in Procs :
        /\ LookedUp(p) /\ PublishFailureRecord(status[p], ev[p])
        /\ hist[ev[p]] = <<"failure">>
        /\ Has(p, "insert")
        /\ InsertsFor(ev[p]) = 2 /\ CleanInserts(ev[p]) = 2
        /\ pc[p] = "success_publish"

====
